---- MODULE Spec2Model ----
(***************************************************************************)
(* State-machine model of src/ip_planner.py: generate_ip_allocation walks  *)
(* a plan of typed steps in two phases over a master IPv4 block, then      *)
(* resolves range headers and strips the section tags.                     *)
(*                                                                         *)
(* Addresses are the 32-bit integer values of the dotted quads.  Every     *)
(* master block used lies in 10.0.0.0/8, so all values stay far below      *)
(* 2^31 and no arithmetic wraps.                                           *)
(***************************************************************************)
EXTENDS Integers, Sequences, FiniteSets, TLC

VARIABLES
    master_network,            \* the parsed master block (line 128)
    plan,                      \* the plan argument (never assigned)
    pc,                        \* position in generate_ip_allocation
    idx,                       \* 1-based position in the current phase's item list
    i,                         \* loop variable of the inner for loop
    current_network_address,   \* the master cursor (line 133)
    network_to_allocate,       \* phase-1 local (lines 176-179)
    aggregate_block_pointers,  \* name -> reserved network (line 134)
    carving_pointers,          \* name -> aggregate cursor (line 135)
    carving_address,           \* phase-2 local (line 226)
    base_network,              \* phase-2 local (line 227)
    allocation_results,        \* the rows built so far (line 136)
    ridx,                      \* 1-based position of the post-processing loop
    final_results,             \* the first component of the returned tuple
    templates,                 \* the module-level dicts of lines 14 and 93
    call,                      \* which call of generate_ip_allocation runs
    first_call                 \* what the first call of the process gave

vars == <<master_network, plan, pc, idx, i, current_network_address,
          network_to_allocate, aggregate_block_pointers, carving_pointers,
          carving_address, base_network, allocation_results, ridx,
          final_results, templates, call, first_call>>

----------------------------------------------------------------------------
(* Bounds of the model *)

\* longest generated plan
MaxPlanLen == 3
\* largest count of a generated allocation step
MaxCount == 2

----------------------------------------------------------------------------
(* Program constants *)

NUM_BLDGS_BASE == 10
NUM_RESERVED == 2
NUM_TOTAL_BUILDING_BLOCKS == NUM_BLDGS_BASE

\* Python's None, and an absent dictionary key read with .get()
None == "None"
\* the empty string in an address-valued cell
NoAddr == -1
\* the title text of a COLUMN_HEADERS cell, in an address-valued cell
ColText == -2
\* an unset network-valued local
NoNet == [addr |-> NoAddr, plen |-> NoAddr]

----------------------------------------------------------------------------
(* Address / prefix arithmetic: the ipaddress operations the code calls *)

IP(a, b, c, d) == ((a * 256 + b) * 256 + c) * 256 + d

\* IPv4Network.num_addresses
NumAddresses(plen) == 2 ^ (32 - plen)

\* ip_network() accepts the prefix text; anything else raises ValueError
ValidPrefix(cidr) == cidr \in 0..32

\* ipaddress.ip_network(f"{addr}/{plen}", strict=False): host bits are masked off
ip_network(addr, plen) ==
    [addr |-> addr - (addr % NumAddresses(plen)), plen |-> plen]

\* IPv4Network.broadcast_address
broadcast_address(n) == n.addr + NumAddresses(n.plen) - 1

\* address in network
InNet(a, n) == n.addr <= a /\ a <= broadcast_address(n)

\* IPv4Network.overlaps
overlaps(n, other) ==
    \/ InNet(other.addr, n)
    \/ InNet(broadcast_address(other), n)
    \/ InNet(n.addr, other)
    \/ InNet(broadcast_address(n), other)

\* IPv4Network.netmask, as its two 16-bit halves
netmask(plen) ==
    << IF plen >= 16 THEN 65535 ELSE 65536 - 2 ^ (16 - plen),
       IF plen <= 16 THEN 0 ELSE 65536 - 2 ^ (32 - plen) >>

----------------------------------------------------------------------------
(* Rows *)

\* the text of a Building cell: a plain string, "BLDG n", or a resolved header
Plain(s) == [kind |-> "plain", text |-> s, num |-> 0, lo |-> NoAddr, hi |-> NoAddr]
Bldg(n) == [kind |-> "bldg", text |-> "BLDG", num |-> n, lo |-> NoAddr, hi |-> NoAddr]
RangeText(name, lo, hi) ==
    [kind |-> "range", text |-> name, num |-> 0, lo |-> lo, hi |-> hi]
NotDetermined(name) ==
    [kind |-> "undetermined", text |-> name, num |-> 0, lo |-> NoAddr, hi |-> NoAddr]

EMPTY_ROW_TEMPLATE ==
    [Building |-> Plain(""), AssignedEquipment |-> "", NetworkAddress |-> NoAddr,
     AssignedIPRange |-> <<>>, CIDR |-> NoAddr, UsableHosts |-> NoAddr,
     SubnetMask |-> <<>>, SVIGateway |-> NoAddr]

COLUMN_HEADERS ==
    [Building |-> Plain("Building"), AssignedEquipment |-> "Assigned Equipment",
     NetworkAddress |-> ColText, AssignedIPRange |-> <<ColText>>,
     CIDR |-> ColText, SubnetMask |-> <<ColText>>, SVIGateway |-> ColText,
     Hosts |-> ColText]

\* a variant of format_allocation_row: only a /32 counts as a network
\* without network and broadcast address
format_allocation_row_Only32(network, building, purpose) ==
    [Building |-> building,
     AssignedEquipment |-> purpose,
     NetworkAddress |-> network.addr,
     AssignedIPRange |->
        IF network.plen > 31
        THEN <<network.addr, broadcast_address(network)>>
        ELSE <<network.addr + 1, broadcast_address(network) - 1>>,
     CIDR |-> network.plen,
     Hosts |-> IF network.plen > 31
               THEN NumAddresses(network.plen)
               ELSE NumAddresses(network.plen) - 2,
     SubnetMask |-> netmask(network.plen),
     SVIGateway |-> NoAddr]

format_allocation_row(network, building, purpose) ==
    [Building |-> building,
     AssignedEquipment |-> purpose,
     NetworkAddress |-> network.addr,
     AssignedIPRange |->
        IF network.plen >= 31
        THEN <<network.addr, broadcast_address(network)>>
        ELSE <<network.addr + 1, broadcast_address(network) - 1>>,
     CIDR |-> network.plen,
     Hosts |-> IF network.plen >= 31
               THEN NumAddresses(network.plen)
               ELSE NumAddresses(network.plen) - 2,
     SubnetMask |-> netmask(network.plen),
     SVIGateway |-> NoAddr]

\* dict.get(key): None when the key is absent
Get(row, key) == IF key \in DOMAIN row THEN row[key] ELSE None

\* a row produced by format_allocation_row
IsAllocationRecord(row) == row.NetworkAddress >= 0

\* the network an allocation record describes
RowNet(row) == [addr |-> row.NetworkAddress, plen |-> row.CIDR]

----------------------------------------------------------------------------
(* Plan steps.  A step is a dictionary; a key it does not carry holds None  *)
(* (strings), -1 (cidr, count) or FALSE (building_specific), which is what  *)
(* item.get() makes of an absent key.                                      *)

Step0 ==
    [phase |-> 0, type |-> None, category |-> None, purpose |-> None,
     cidr |-> NoAddr, count |-> NoAddr, building_specific |-> FALSE,
     carving_label |-> None, carving_name |-> None, name |-> None,
     base_block |-> None]

BlankRow(ph) == [Step0 EXCEPT !.phase = ph, !.type = "blank_row"]

Header(ph, cat, purp) ==
    [Step0 EXCEPT !.phase = ph, !.type = "header", !.category = cat, !.purpose = purp]

P1HeaderWithRangeStep(cname, purp, c, n, label) ==
    [Step0 EXCEPT !.phase = 1, !.type = "header_with_range", !.carving_name = cname,
                  !.purpose = purp, !.cidr = c, !.count = n, !.carving_label = label]

P1AllocationStep(cat, purp, c, n, bs, label) ==
    [Step0 EXCEPT !.phase = 1, !.type = "allocation", !.category = cat,
                  !.purpose = purp, !.cidr = c, !.count = n,
                  !.building_specific = bs, !.carving_label = label]

AggregateStep(cat, purp, c, nm) ==
    [Step0 EXCEPT !.phase = 1, !.type = "aggregate", !.category = cat,
                  !.purpose = purp, !.cidr = c, !.name = nm]

RemainderStep(cat, purp, c) ==
    [Step0 EXCEPT !.phase = 1, !.type = "remainder", !.category = cat,
                  !.purpose = purp, !.cidr = c]

P2HeaderWithRangeStep(base, cname, purp, c, label) ==
    [Step0 EXCEPT !.phase = 2, !.type = "header_with_range", !.base_block = base,
                  !.carving_name = cname, !.purpose = purp, !.cidr = c,
                  !.carving_label = label]

P2AllocationStep(base, purp, c, n, bs, label) ==
    [Step0 EXCEPT !.phase = 2, !.type = "allocation", !.base_block = base,
                  !.purpose = purp, !.cidr = c, !.count = n,
                  !.building_specific = bs, !.carving_label = label]

CarveRemainderStep(base, purp, c, label) ==
    [Step0 EXCEPT !.phase = 2, !.type = "carve_remainder", !.base_block = base,
                  !.purpose = purp, !.cidr = c, !.carving_label = label]

MASTER_PLAN ==
    << P1HeaderWithRangeStep("Cameras", "Cameras", 21, 12, "Cameras"),
       P1AllocationStep("Cameras", "Cameras", 21, NUM_TOTAL_BUILDING_BLOCKS, TRUE, "Cameras"),
       P1AllocationStep("Cameras", "Reserved", 21, NUM_RESERVED, FALSE, "Cameras"),
       BlankRow(1),
       AggregateStep("Switch MGMT", "Switch MGMT Aggregate Block", 20, "SWITCH_MGMT_AGGREGATE"),
       BlankRow(1),
       AggregateStep("OSPF PEERING", "OSPF Peering Aggregate Block", 21, "OSPF_PEERING_AGGREGATE"),
       BlankRow(1),
       AggregateStep("PIDS and Intercoms", "PIDS and Intercoms Aggregate Block", 20, "PIDS_INTERCOM_BLOCK"),
       BlankRow(1),
       RemainderStep("UNUSED (Master /17 Remainder)", "UNUSED", 24),
       P2HeaderWithRangeStep("SWITCH_MGMT_AGGREGATE", "switch MGMT", "management", 24, "management"),
       P2AllocationStep("SWITCH_MGMT_AGGREGATE", "management", 24, NUM_BLDGS_BASE + NUM_RESERVED, TRUE, "management"),
       BlankRow(2),
       P2HeaderWithRangeStep("SWITCH_MGMT_AGGREGATE", "Servers", "Servers", 27, "Servers"),
       P2AllocationStep("SWITCH_MGMT_AGGREGATE", "Servers", 27, NUM_BLDGS_BASE + NUM_RESERVED, TRUE, "Servers"),
       BlankRow(2),
       P2HeaderWithRangeStep("OSPF_PEERING_AGGREGATE", "IP OSPF PEERING", "IP OSPF PEERING", 31, "IP OSPF PEERING"),
       P2AllocationStep("OSPF_PEERING_AGGREGATE", "IP OSPF PEERING", 31, NUM_BLDGS_BASE + NUM_RESERVED, TRUE, "IP OSPF PEERING"),
       BlankRow(2),
       Header(2, "UNUSED (Switch MGMT Block Remainder)", "UNUSED"),
       CarveRemainderStep("SWITCH_MGMT_AGGREGATE", "UNUSED", 24, "UNUSED"),
       BlankRow(2),
       P2HeaderWithRangeStep("PIDS_INTERCOM_BLOCK", "PIDS", "PIDS", 24, "PIDS"),
       P2AllocationStep("PIDS_INTERCOM_BLOCK", "PIDS", 24, NUM_BLDGS_BASE + NUM_RESERVED, TRUE, "PIDS"),
       BlankRow(2),
       P2HeaderWithRangeStep("PIDS_INTERCOM_BLOCK", "Intercoms", "Intercoms", 27, "Intercoms"),
       P2AllocationStep("PIDS_INTERCOM_BLOCK", "Intercoms", 27, NUM_BLDGS_BASE + NUM_RESERVED, TRUE, "Intercoms"),
       BlankRow(2),
       Header(2, "UNUSED (PIDS/Intercoms Block Remainder)", "UNUSED"),
       CarveRemainderStep("PIDS_INTERCOM_BLOCK", "UNUSED", 24, "UNUSED") >>

\* a variant of PhaseItems: the phase mark is not looked at
PhaseItems_Unfiltered(pl, ph) == pl

\* [p for p in plan if p.get('phase') == ph]
PhaseItems(pl, ph) == SelectSeq(pl, LAMBDA p : p.phase = ph)

----------------------------------------------------------------------------
(* The inputs explored: generated plans over two small master blocks, and  *)
(* the fixed scenarios (MASTER_PLAN on its /17 among them).                *)

GenMasters ==
    { [addr |-> IP(10, 0, 0, 0), plen |-> 24],
      [addr |-> IP(10, 0, 0, 0), plen |-> 26] }

GenSteps ==
    { P1AllocationStep("Zone", "Hosts", 26, 1, FALSE, "S"),
      P1AllocationStep("Zone", "Hosts", 27, MaxCount, FALSE, "S"),
      P1AllocationStep("Zone", "Hosts", 25, 1, FALSE, "S"),
      AggregateStep("Agg", "Aggregate Block", 26, "AGG"),
      AggregateStep("Agg", "Aggregate Block", 27, "AGG2"),
      P2AllocationStep("AGG", "Links", 27, MaxCount, FALSE, "T"),
      P2AllocationStep("AGG", "Links", 28, 1, TRUE, "T"),
      P2AllocationStep("AGG", "Links", 25, 1, FALSE, "T"),
      P2AllocationStep("AGG2", "Links", 28, MaxCount, FALSE, "T"),
      CarveRemainderStep("AGG", "UNUSED", 28, "UNUSED"),
      P2HeaderWithRangeStep("AGG", "Links", "Links", 27, "T"),
      BlankRow(2) }

GenPlans == UNION { [1..n -> GenSteps] : n \in 0..MaxPlanLen }

\* spec section 8, end-to-end scenario
E2E_PLAN ==
    << AggregateStep("Agg", "Aggregate Block", 26, "AGG"),
       P2AllocationStep("AGG", "Links", 28, 2, FALSE, "T") >>

\* spec section 8, remainder carving: a /24 aggregate whose first /25 is consumed
REMAINDER_PLAN ==
    << AggregateStep("Agg", "Aggregate Block", 24, "AGG"),
       P2AllocationStep("AGG", "Links", 25, 1, FALSE, "T"),
       CarveRemainderStep("AGG", "UNUSED", 28, "UNUSED") >>

\* a carve_remainder whose prefix is shorter than its aggregate's
SHORT_REMAINDER_PLAN ==
    << AggregateStep("Agg", "Aggregate Block", 26, "AGG"),
       CarveRemainderStep("AGG", "UNUSED", 25, "UNUSED") >>

\* prefix lengths ip_network() rejects, and steps of every other shape
MISC_PLAN ==
    << Header(1, "Section", "Hosts"),
       BlankRow(1),
       RemainderStep("UNUSED", "UNUSED", 28),
       AggregateStep("Agg", "Aggregate Block", 26, "AGG"),
       P2AllocationStep("NOPE", "Links", 28, 1, FALSE, "T"),
       Header(2, "Section", "Links"),
       P2AllocationStep("AGG", "Links", 33, 1, FALSE, "T"),
       P2AllocationStep("AGG", "Links", 28, 1, FALSE, "T"),
       [RemainderStep("UNUSED", "UNUSED", 28) EXCEPT !.phase = 2] >>

\* a phase-1 prefix length ip_network() rejects
BAD_PREFIX_PLAN ==
    << P1AllocationStep("Zone", "Hosts", 28, 1, FALSE, "S"),
       P1AllocationStep("Zone", "Hosts", 33, 1, FALSE, "S"),
       BlankRow(2) >>

\* a phase-2 carve that names no base_block before any local was bound
UNBOUND_PLAN ==
    << AggregateStep("Agg", "Aggregate Block", 26, "AGG"),
       P2AllocationStep(None, "Links", 28, 1, FALSE, "T") >>

\* spec section 8, header resolution: a header, its records, a blank row;
\* the records carry no building label
HEADER_PLAN ==
    << AggregateStep("Agg", "Aggregate Block", 26, "AGG"),
       P2HeaderWithRangeStep("AGG", "Links", "Links", 28, "T"),
       P2AllocationStep("AGG", "Links", 28, 2, FALSE, "T"),
       BlankRow(2) >>

\* phase-1 steps that run into their reserved iterations, and a phase-1 step
\* whose purpose is "Reserved"
RESERVED_PLAN ==
    << P1HeaderWithRangeStep("Zone", "Hosts", 30, NUM_BLDGS_BASE + NUM_RESERVED, "S"),
       P1AllocationStep("Zone", "Hosts", 30, NUM_BLDGS_BASE + NUM_RESERVED, TRUE, "S"),
       P1AllocationStep("Zone", "Reserved", 30, NUM_RESERVED, FALSE, "S"),
       BlankRow(1),
       P1AllocationStep("Zone", "Hosts", 30, 1, TRUE, "S") >>

\* a plain header step between two building-specific carves of one section
SCAN_PLAN ==
    << AggregateStep("Agg", "Aggregate Block", 26, "AGG"),
       P2HeaderWithRangeStep("AGG", "Links", "Links", 28, "T"),
       P2AllocationStep("AGG", "Links", 28, 1, TRUE, "T"),
       Header(2, "Section", "Links"),
       P2AllocationStep("AGG", "Links", 28, 1, TRUE, "T") >>

\* a phase-1 section whose steps carry no carving_label
UNTAGGED_PLAN ==
    << P1HeaderWithRangeStep("Zone", "Hosts", 30, 1, None),
       P1AllocationStep("Zone", "Hosts", 30, 1, FALSE, None) >>

\* steps of both phases interleaved in the list, a phase-2 carve declared
\* before the aggregate it names, and steps of a phase that is neither 1
\* nor 2
INTERLEAVED_PLAN ==
    << P2AllocationStep("AGG", "Links", 28, 1, TRUE, "T"),
       [P1AllocationStep("Zone", "Ghost", 26, 1, FALSE, "S") EXCEPT !.phase = 3],
       P1AllocationStep("Zone", "Hosts", 26, 1, FALSE, "S"),
       Header(2, "Section", "Links"),
       AggregateStep("Agg", "Aggregate Block", 26, "AGG"),
       BlankRow(0) >>

Scenarios ==
    { [master |-> [addr |-> IP(10, 15, 0, 0), plen |-> 17], plan |-> MASTER_PLAN],
      [master |-> [addr |-> IP(10, 0, 0, 0), plen |-> 24], plan |-> HEADER_PLAN],
      [master |-> [addr |-> IP(10, 0, 0, 0), plen |-> 24], plan |-> RESERVED_PLAN],
      [master |-> [addr |-> IP(10, 0, 0, 0), plen |-> 24], plan |-> INTERLEAVED_PLAN],
      [master |-> [addr |-> IP(10, 0, 0, 0), plen |-> 24], plan |-> SCAN_PLAN],
      [master |-> [addr |-> IP(10, 0, 0, 0), plen |-> 24], plan |-> UNTAGGED_PLAN],
      [master |-> [addr |-> IP(10, 0, 0, 0), plen |-> 24], plan |-> E2E_PLAN],
      [master |-> [addr |-> IP(10, 0, 0, 0), plen |-> 24], plan |-> REMAINDER_PLAN],
      [master |-> [addr |-> IP(10, 0, 0, 0), plen |-> 24], plan |-> SHORT_REMAINDER_PLAN],
      [master |-> [addr |-> IP(10, 0, 0, 0), plen |-> 24], plan |-> MISC_PLAN],
      [master |-> [addr |-> IP(10, 0, 0, 0), plen |-> 24], plan |-> BAD_PREFIX_PLAN],
      [master |-> [addr |-> IP(10, 0, 0, 0), plen |-> 24], plan |-> UNBOUND_PLAN] }

Inputs ==
    Scenarios \cup { [master |-> m, plan |-> p] : m \in GenMasters, p \in GenPlans }

----------------------------------------------------------------------------
(* generate_ip_allocation *)

\* what a call gives its caller: how it ended, and the returned tuple
NoCall == [kind |-> "none", rows |-> <<>>, cursor |-> NoAddr]

\* a variant of EntryResults: the list of an earlier call is taken up again
EntryResults_Kept(previous) == previous

\* line 136: the list of rows a call starts with; previous is what an
\* earlier call of the process left in its list
EntryResults(previous) == <<>>

Init ==
    \E inp \in Inputs :
        /\ master_network = inp.master
        /\ plan = inp.plan
        /\ pc = "phase1"
        /\ idx = 1
        /\ i = 0
        /\ current_network_address = inp.master.addr
        /\ network_to_allocate = NoNet
        /\ aggregate_block_pointers = <<>>
        /\ carving_pointers = <<>>
        /\ carving_address = NoAddr
        /\ base_network = NoNet
        /\ allocation_results = EntryResults(<<>>)
        /\ ridx = 1
        /\ final_results = <<>>
        /\ templates = [EMPTY_ROW_TEMPLATE |-> EMPTY_ROW_TEMPLATE,
                        COLUMN_HEADERS |-> COLUMN_HEADERS]
        /\ call = 1
        /\ first_call = NoCall

\* dict[key] = value
Put(d, key, value) ==
    [k \in DOMAIN d \cup {key} |-> IF k = key THEN value ELSE d[k]]

P1Items == PhaseItems(plan, 1)
P2Items == PhaseItems(plan, 2)

\* the item of the phase-1 loop
Item1 == P1Items[idx]
\* the item of the phase-2 loop
Item2 == P2Items[idx]

InPhase1 == pc = "phase1" /\ idx <= Len(P1Items)
InPhase2 == pc = "phase2" /\ idx <= Len(P2Items)

\* item.get('count', 1)
Count1(item) == IF item.count = NoAddr THEN 1 ELSE item.count

\* the header_with_range placeholder row of phase 1
HeaderRow1(item, len) ==
    [is_range_placeholder |-> TRUE,
     carving_name |-> IF item.carving_name # None THEN item.carving_name
                      ELSE item.category,
     allocation_start_index |-> len + 1,
     carving_label |-> item.carving_label] @@ templates.EMPTY_ROW_TEMPLATE

\* a variant of HeaderRow2: the header row shows the network address of
\* its aggregate in the Network Address cell
HeaderRow2_WithNetwork(item, len, base) ==
    [is_range_placeholder |-> TRUE,
     carving_name |-> item.carving_name,
     allocation_start_index |-> len + 1,
     carving_label |-> item.carving_label,
     aggregate_network |-> base,
     NetworkAddress |-> base.addr] @@ templates.EMPTY_ROW_TEMPLATE

\* the header_with_range placeholder row of phase 2
HeaderRow2(item, len, base) ==
    [is_range_placeholder |-> TRUE,
     carving_name |-> item.carving_name,
     allocation_start_index |-> len + 1,
     carving_label |-> item.carving_label,
     aggregate_network |-> base] @@ templates.EMPTY_ROW_TEMPLATE

\* a variant of BuildingName1: the purpose of the step plays no part
BuildingName1_PurposeBlind(item, k) ==
    IF item.building_specific
    THEN IF k >= NUM_BLDGS_BASE THEN Plain("Reserved") ELSE Bldg(k + 1)
    ELSE Plain("")

\* the Building cell of a phase-1 record
BuildingName1(item, k) ==
    IF item.building_specific
    THEN IF k >= NUM_BLDGS_BASE THEN Plain("Reserved") ELSE Bldg(k + 1)
    ELSE IF item.purpose = "Reserved" THEN Plain("Reserved") ELSE Plain("")

\* the Building cell of a phase-2 record
BuildingName2(item, k) ==
    IF item.building_specific
    THEN IF k >= NUM_BLDGS_BASE THEN Plain("Reserved") ELSE Bldg(k + 1)
    ELSE Plain("")

\* p_final of a phase-2 record
PurposeFinal(item, k) ==
    IF item.building_specific /\ k >= NUM_BLDGS_BASE THEN "Reserved" ELSE item.purpose

\* the row of a phase-1 carve
Row1(item, network, k) ==
    IF item.carving_label # None
    THEN [carving_label |-> item.carving_label]
         @@ format_allocation_row(network, BuildingName1(item, k), item.purpose)
    ELSE format_allocation_row(network, BuildingName1(item, k), item.purpose)

\* the row of a phase-2 carve
Row2(item, network, k) ==
    [carving_label |-> item.carving_label]
    @@ format_allocation_row(network, BuildingName2(item, k), PurposeFinal(item, k))

\* the row of a carve_remainder subnet
RowRemainder(item, sub) ==
    [carving_label |-> item.carving_label]
    @@ format_allocation_row(sub, Plain("UNUSED"), item.purpose)

(* ---- phase 1 ---- *)

P1Frame ==
    UNCHANGED <<master_network, plan, templates, call, first_call,
                aggregate_block_pointers, carving_pointers, carving_address,
                base_network, ridx, final_results>>

\* lines 143-145
P1Blank ==
    /\ InPhase1 /\ Item1.type = "blank_row"
    /\ allocation_results' = Append(allocation_results, templates.EMPTY_ROW_TEMPLATE)
    /\ idx' = idx + 1
    /\ UNCHANGED <<pc, i, current_network_address, network_to_allocate>>
    /\ P1Frame

\* lines 152-156
P1Header ==
    /\ InPhase1 /\ Item1.type = "header"
    /\ allocation_results' =
          Append(allocation_results,
                 [templates.EMPTY_ROW_TEMPLATE EXCEPT !.Building = Plain(Item1.category)])
    /\ idx' = idx + 1
    /\ UNCHANGED <<pc, i, current_network_address, network_to_allocate>>
    /\ P1Frame

\* lines 157-165
P1HeaderWithRange ==
    /\ InPhase1 /\ Item1.type = "header_with_range"
    /\ allocation_results' =
          allocation_results
          \o << HeaderRow1(Item1, Len(allocation_results)), templates.COLUMN_HEADERS >>
    /\ idx' = idx + 1
    /\ UNCHANGED <<pc, i, current_network_address, network_to_allocate>>
    /\ P1Frame

\* lines 166-167, and an item of any other type: no branch does anything
P1Pass ==
    /\ InPhase1
    /\ Item1.type \notin {"blank_row", "header", "header_with_range",
                          "allocation", "aggregate"}
    /\ idx' = idx + 1
    /\ UNCHANGED <<pc, i, current_network_address, network_to_allocate,
                   allocation_results>>
    /\ P1Frame

IsCarve1 == InPhase1 /\ Item1.type \in {"allocation", "aggregate"}

\* a variant of Realign: the cursor is taken as the network address as it
\* stands, host bits included
Realign_Unmasked(addr, cidr) == [addr |-> addr, plen |-> cidr]

\* the realigned candidate of lines 176-179
Realign(addr, cidr) == ip_network(addr, cidr)

\* lines 174-179: the try block of one iteration
P1Align ==
    /\ IsCarve1 /\ i < Count1(Item1)
    /\ ValidPrefix(Item1.cidr)
    /\ network_to_allocate' = Realign(current_network_address, Item1.cidr)
    /\ current_network_address' = network_to_allocate'.addr
    /\ pc' = "p1_check"
    /\ UNCHANGED <<idx, i, allocation_results>>
    /\ P1Frame

\* lines 180-182: ip_network raised ValueError
P1ValueError ==
    /\ IsCarve1 /\ i < Count1(Item1)
    /\ ~ValidPrefix(Item1.cidr)
    /\ pc' = "fatal"
    /\ final_results' = allocation_results
    /\ UNCHANGED <<master_network, plan, templates, call, first_call, idx, i,
                   current_network_address, network_to_allocate,
                   aggregate_block_pointers, carving_pointers,
                   carving_address, base_network, allocation_results, ridx>>

\* the master check of line 184
MasterCheck(network) == overlaps(master_network, network)

\* lines 184-186: the candidate fails the master check
P1Outside ==
    /\ pc = "p1_check"
    /\ ~MasterCheck(network_to_allocate)
    /\ pc' = "fatal"
    /\ final_results' = allocation_results
    /\ UNCHANGED <<master_network, plan, templates, call, first_call, idx, i,
                   current_network_address, network_to_allocate,
                   aggregate_block_pointers, carving_pointers,
                   carving_address, base_network, allocation_results, ridx>>

\* a variant of AggregateCursorStart: the cursor of a new aggregate starts
\* where the master cursor stands once the aggregate is reserved
AggregateCursorStart_AtMasterCursor(network) == broadcast_address(network) + 1

\* line 202: where the cursor of a new aggregate starts
AggregateCursorStart(network) == network.addr

\* lines 188-211: the record, the registry entry, the cursor
P1Emit ==
    /\ pc = "p1_check"
    /\ MasterCheck(network_to_allocate)
    /\ IF Item1.type = "aggregate"
       THEN /\ aggregate_block_pointers' =
                  Put(aggregate_block_pointers, Item1.name, network_to_allocate)
            /\ carving_pointers' =
                  Put(carving_pointers, Item1.name,
                      AggregateCursorStart(network_to_allocate))
            /\ UNCHANGED allocation_results
       ELSE /\ allocation_results' =
                  Append(allocation_results, Row1(Item1, network_to_allocate, i))
            /\ UNCHANGED <<aggregate_block_pointers, carving_pointers>>
    /\ current_network_address' = broadcast_address(network_to_allocate) + 1
    /\ i' = i + 1
    /\ pc' = "phase1"
    /\ UNCHANGED <<master_network, plan, templates, call, first_call, idx,
                   network_to_allocate, carving_address, base_network, ridx,
                   final_results>>

\* line 174: range(count) is used up
P1LoopEnd ==
    /\ IsCarve1 /\ i >= Count1(Item1)
    /\ idx' = idx + 1
    /\ i' = 0
    /\ UNCHANGED <<pc, current_network_address, network_to_allocate,
                   allocation_results>>
    /\ P1Frame

\* line 141: the phase-1 list is used up
P1Done ==
    /\ pc = "phase1" /\ idx > Len(P1Items)
    /\ pc' = "phase2"
    /\ idx' = 1
    /\ i' = 0
    /\ UNCHANGED <<current_network_address, network_to_allocate, allocation_results>>
    /\ P1Frame

(* ---- phase 2 ---- *)

\* line 222: the step names an aggregate the registry does not hold
UnknownAggregate(item) ==
    item.base_block # None /\ item.base_block \notin DOMAIN aggregate_block_pointers

\* lines 225-227: the locals as the body of the step sees them; they are
\* assigned when the step names a base_block and keep their value otherwise
carving_address_local ==
    IF i = 0 /\ Item2.base_block # None
    THEN carving_pointers[Item2.base_block] ELSE carving_address
base_network_local ==
    IF i = 0 /\ Item2.base_block # None
    THEN aggregate_block_pointers[Item2.base_block] ELSE base_network

\* a step past line 223
Entered2 == InPhase2 /\ Item2.type # "blank_row" /\ ~UnknownAggregate(Item2)

\* the step reads a local that no earlier step bound (UnboundLocalError)
Unbound2 ==
    /\ Item2.type \in {"header_with_range", "allocation", "carve_remainder"}
    /\ base_network_local = NoNet

P2Frame == UNCHANGED <<master_network, plan, templates, call, first_call,
                       current_network_address, network_to_allocate,
                       aggregate_block_pointers, ridx, final_results>>

\* lines 216-218
P2Blank ==
    /\ InPhase2 /\ Item2.type = "blank_row"
    /\ allocation_results' = Append(allocation_results, templates.EMPTY_ROW_TEMPLATE)
    /\ idx' = idx + 1
    /\ UNCHANGED <<pc, i, carving_pointers, carving_address, base_network>>
    /\ P2Frame

\* a variant of P2UnknownAggregate: the unknown name ends the run, the way
\* a failed phase-1 carve does
P2UnknownAggregate_Fatal ==
    /\ InPhase2 /\ Item2.type # "blank_row" /\ UnknownAggregate(Item2)
    /\ pc' = "fatal"
    /\ final_results' = allocation_results
    /\ UNCHANGED <<master_network, plan, templates, call, first_call, idx, i,
                   current_network_address, network_to_allocate,
                   aggregate_block_pointers, carving_pointers,
                   carving_address, base_network, allocation_results, ridx>>

\* lines 222-223
P2UnknownAggregate ==
    /\ InPhase2 /\ Item2.type # "blank_row" /\ UnknownAggregate(Item2)
    /\ idx' = idx + 1
    /\ UNCHANGED <<pc, i, carving_pointers, carving_address, base_network,
                   allocation_results>>
    /\ P2Frame

\* lines 229-233
P2Header ==
    /\ Entered2 /\ Item2.type = "header"
    /\ allocation_results' =
          Append(allocation_results,
                 [templates.EMPTY_ROW_TEMPLATE EXCEPT !.Building = Plain(Item2.category)])
    /\ carving_address' = carving_address_local
    /\ base_network' = base_network_local
    /\ idx' = idx + 1
    /\ UNCHANGED <<pc, i, carving_pointers>>
    /\ P2Frame

\* lines 235-244
P2HeaderWithRange ==
    /\ Entered2 /\ Item2.type = "header_with_range" /\ ~Unbound2
    /\ allocation_results' =
          allocation_results
          \o << HeaderRow2(Item2, Len(allocation_results), base_network_local),
                templates.COLUMN_HEADERS >>
    /\ carving_address' = carving_address_local
    /\ base_network' = base_network_local
    /\ idx' = idx + 1
    /\ UNCHANGED <<pc, i, carving_pointers>>
    /\ P2Frame

\* an item of any other type: no branch does anything
P2Pass ==
    /\ Entered2
    /\ Item2.type \notin {"header", "header_with_range", "allocation",
                          "carve_remainder"}
    /\ carving_address' = carving_address_local
    /\ base_network' = base_network_local
    /\ idx' = idx + 1
    /\ UNCHANGED <<pc, i, carving_pointers, allocation_results>>
    /\ P2Frame

IsCarve2 == Entered2 /\ Item2.type = "allocation" /\ ~Unbound2

\* line 253: the candidate of a phase-2 carve
Candidate2(addr, cidr) == ip_network(addr, cidr)

\* line 257: the candidate runs past the aggregate
AggregateOverflow(network, base) ==
    broadcast_address(network) > broadcast_address(base)

\* a variant of P2Emit: one cursor is shared by all aggregates
P2Emit_SharedCursor ==
    /\ IsCarve2 /\ i < Item2.count
    /\ ValidPrefix(Item2.cidr)
    /\ LET network == Candidate2(carving_address_local, Item2.cidr)
       IN  /\ ~AggregateOverflow(network, base_network_local)
           /\ allocation_results' =
                 Append(allocation_results, Row2(Item2, network, i))
           /\ carving_pointers' =
                 [n \in DOMAIN carving_pointers \cup {Item2.base_block}
                     |-> broadcast_address(network) + 1]
           /\ carving_address' = broadcast_address(network) + 1
    /\ base_network' = base_network_local
    /\ i' = i + 1
    /\ UNCHANGED <<pc, idx>>
    /\ P2Frame

\* lines 251-278: one iteration that emits its record
P2Emit ==
    /\ IsCarve2 /\ i < Item2.count
    /\ ValidPrefix(Item2.cidr)
    /\ LET network == Candidate2(carving_address_local, Item2.cidr)
       IN  /\ ~AggregateOverflow(network, base_network_local)
           /\ allocation_results' =
                 Append(allocation_results, Row2(Item2, network, i))
           /\ carving_pointers' =
                 Put(carving_pointers, Item2.base_block,
                     broadcast_address(network) + 1)
           /\ carving_address' = broadcast_address(network) + 1
    /\ base_network' = base_network_local
    /\ i' = i + 1
    /\ UNCHANGED <<pc, idx>>
    /\ P2Frame

\* lines 254-255: ip_network raised ValueError, the loop is left
P2ValueError ==
    /\ IsCarve2 /\ i < Item2.count
    /\ ~ValidPrefix(Item2.cidr)
    /\ carving_address' = carving_address_local
    /\ base_network' = base_network_local
    /\ idx' = idx + 1
    /\ i' = 0
    /\ UNCHANGED <<pc, carving_pointers, allocation_results>>
    /\ P2Frame

\* a variant of P2Overflow: the cursor is moved to the candidate's network
\* address before the fit test, as phase 1 does with the master cursor
P2Overflow_Realigned ==
    /\ IsCarve2 /\ i < Item2.count
    /\ ValidPrefix(Item2.cidr)
    /\ AggregateOverflow(Candidate2(carving_address_local, Item2.cidr),
                         base_network_local)
    /\ carving_pointers' =
          Put(carving_pointers, Item2.base_block,
              Candidate2(carving_address_local, Item2.cidr).addr)
    /\ carving_address' = Candidate2(carving_address_local, Item2.cidr).addr
    /\ base_network' = base_network_local
    /\ idx' = idx + 1
    /\ i' = 0
    /\ UNCHANGED <<pc, allocation_results>>
    /\ P2Frame

\* lines 257-259: the candidate does not fit, the loop is left
P2Overflow ==
    /\ IsCarve2 /\ i < Item2.count
    /\ ValidPrefix(Item2.cidr)
    /\ AggregateOverflow(Candidate2(carving_address_local, Item2.cidr),
                         base_network_local)
    /\ carving_address' = carving_address_local
    /\ base_network' = base_network_local
    /\ idx' = idx + 1
    /\ i' = 0
    /\ UNCHANGED <<pc, carving_pointers, allocation_results>>
    /\ P2Frame

\* line 251: range(count) is used up
P2LoopEnd ==
    /\ IsCarve2 /\ i >= Item2.count
    /\ carving_address' = carving_address_local
    /\ base_network' = base_network_local
    /\ idx' = idx + 1
    /\ i' = 0
    /\ UNCHANGED <<pc, carving_pointers, allocation_results>>
    /\ P2Frame

IsRemainder2 == Entered2 /\ Item2.type = "carve_remainder" /\ ~Unbound2

\* line 284
remaining == ip_network(carving_address_local, base_network_local.plen)

\* line 285
RemainderExhausted == remaining.addr >= broadcast_address(base_network_local)

\* remaining.subnets(new_prefix=target_cidr) raises ValueError
SubnetsRaises(cidr) == cidr < remaining.plen \/ cidr > 32

\* the k-th network (from 0) of remaining.subnets(new_prefix=cidr)
Subnet(k, cidr) == [addr |-> remaining.addr + k * NumAddresses(cidr), plen |-> cidr]

\* how many networks remaining.subnets(new_prefix=cidr) yields
NumSubnets(cidr) == 2 ^ (cidr - remaining.plen)

\* lines 289-290: the loop body goes on to emit the k-th subnet
RemainderAccepts(k, cidr) ==
    /\ k < NumSubnets(cidr)
    /\ broadcast_address(Subnet(k, cidr)) <= broadcast_address(base_network_local)
    /\ overlaps(base_network_local, Subnet(k, cidr))

\* lines 285-286
P2RemainderSkip ==
    /\ IsRemainder2 /\ i = 0 /\ RemainderExhausted
    /\ carving_address' = carving_address_local
    /\ base_network' = base_network_local
    /\ idx' = idx + 1
    /\ UNCHANGED <<pc, i, carving_pointers, allocation_results>>
    /\ P2Frame

\* line 288: subnets() raises and nothing catches it
P2RemainderRaises ==
    /\ IsRemainder2 /\ i = 0 /\ ~RemainderExhausted
    /\ SubnetsRaises(Item2.cidr)
    /\ pc' = "crashed"
    /\ carving_address' = carving_address_local
    /\ base_network' = base_network_local
    /\ UNCHANGED <<idx, i, carving_pointers, allocation_results>>
    /\ P2Frame

\* a variant of P2RemainderEmit: the record is emitted and the aggregate's
\* cursor is left where it was
P2RemainderEmit_NoAdvance ==
    /\ IsRemainder2 /\ ~RemainderExhausted /\ ~SubnetsRaises(Item2.cidr)
    /\ RemainderAccepts(i, Item2.cidr)
    /\ allocation_results' =
          Append(allocation_results, RowRemainder(Item2, Subnet(i, Item2.cidr)))
    /\ carving_address' = carving_address_local
    /\ base_network' = base_network_local
    /\ i' = i + 1
    /\ UNCHANGED <<pc, idx, carving_pointers>>
    /\ P2Frame

\* lines 288-294: one subnet of the loop, emitted
P2RemainderEmit ==
    /\ IsRemainder2 /\ ~RemainderExhausted /\ ~SubnetsRaises(Item2.cidr)
    /\ RemainderAccepts(i, Item2.cidr)
    /\ allocation_results' =
          Append(allocation_results, RowRemainder(Item2, Subnet(i, Item2.cidr)))
    /\ carving_pointers' =
          Put(carving_pointers, Item2.base_block,
              broadcast_address(Subnet(i, Item2.cidr)) + 1)
    /\ carving_address' = carving_address_local
    /\ base_network' = base_network_local
    /\ i' = i + 1
    /\ UNCHANGED <<pc, idx>>
    /\ P2Frame

\* lines 288-296: the generator is used up, or the body breaks
P2RemainderEnd ==
    /\ IsRemainder2 /\ ~RemainderExhausted /\ ~SubnetsRaises(Item2.cidr)
    /\ ~RemainderAccepts(i, Item2.cidr)
    /\ carving_address' = carving_address_local
    /\ base_network' = base_network_local
    /\ idx' = idx + 1
    /\ i' = 0
    /\ UNCHANGED <<pc, carving_pointers, allocation_results>>
    /\ P2Frame

\* lines 241, 253, 284: a local is read before any step bound it
P2UnboundLocal ==
    /\ Entered2 /\ Unbound2
    /\ pc' = "crashed"
    /\ UNCHANGED <<idx, i, carving_pointers, carving_address, base_network,
                   allocation_results>>
    /\ P2Frame

\* line 214: the phase-2 list is used up
P2Done ==
    /\ pc = "phase2" /\ idx > Len(P2Items)
    /\ pc' = "resolve"
    /\ ridx' = 1
    /\ UNCHANGED <<master_network, plan, templates, call, first_call, idx, i,
                   current_network_address, network_to_allocate,
                   aggregate_block_pointers, carving_pointers,
                   carving_address, base_network, allocation_results,
                   final_results>>

(* ---- post-processing: fill headers, strip section tags ---- *)

\* row.get('is_range_placeholder')
IsPlaceholder(row) ==
    "is_range_placeholder" \in DOMAIN row /\ row.is_range_placeholder

\* lines 310-313: the scan stops at this row
StopsScan(row) == row.Building = Plain("") \/ IsPlaceholder(row)

\* the 1-based position at which the scan of lines 308-313 stops
ScanStop(rows, start) ==
    LET stops == { j \in (start + 1)..Len(rows) : StopsScan(rows[j]) }
    IN  IF stops = {} THEN Len(rows) + 1
        ELSE CHOOSE j \in stops : \A k \in stops : j <= k

\* lines 316-319
Matches(candidate, target_label) ==
    /\ candidate.NetworkAddress # NoAddr
    /\ Get(candidate, "carving_label") = target_label

\* found_subnets of lines 307-319; start is the 0-based allocation_start_index
FoundSubnets(rows, start, target_label) ==
    SelectSeq(SubSeq(rows, start + 1, ScanStop(rows, start) - 1),
              LAMBDA c : Matches(c, target_label))

\* lines 321-334: the Building text of a placeholder row
ResolvedBuilding(rows, row) ==
    LET found == FoundSubnets(rows, row.allocation_start_index, row.carving_label)
        first == found[1].AssignedIPRange
        last == found[Len(found)].AssignedIPRange
    IN  IF found # <<>>
        THEN RangeText(row.carving_name, first[1], last[Len(last)])
        ELSE IF "aggregate_network" \in DOMAIN row
             THEN RangeText(row.carving_name,
                            row.aggregate_network.addr + 1,
                            broadcast_address(row.aggregate_network) - 1)
             ELSE NotDetermined(row.carving_name)

ResolveFrame ==
    UNCHANGED <<master_network, plan, templates, call, first_call, pc, idx,
                i, current_network_address, network_to_allocate,
                aggregate_block_pointers, carving_pointers, carving_address,
                base_network, final_results>>

\* lines 299-334: a placeholder row gets its range
ResolveHeader ==
    /\ pc = "resolve" /\ ridx <= Len(allocation_results)
    /\ IsPlaceholder(allocation_results[ridx])
    /\ allocation_results' =
          [allocation_results EXCEPT
              ![ridx].Building = ResolvedBuilding(allocation_results,
                                                  allocation_results[ridx])]
    /\ ridx' = ridx + 1
    /\ ResolveFrame

\* lines 299-300, 338-340: any other row is left as it is
ResolveOther ==
    /\ pc = "resolve" /\ ridx <= Len(allocation_results)
    /\ ~IsPlaceholder(allocation_results[ridx])
    /\ ridx' = ridx + 1
    /\ UNCHANGED allocation_results
    /\ ResolveFrame

\* line 345
Cleaned(row) == [k \in DOMAIN row \ {"carving_label"} |-> row[k]]

\* lines 343-348
Return ==
    /\ pc = "resolve" /\ ridx > Len(allocation_results)
    /\ final_results' = [k \in 1..Len(allocation_results) |->
                            Cleaned(allocation_results[k])]
    /\ pc' = "done"
    /\ UNCHANGED <<master_network, plan, templates, call, first_call, idx, i,
                   current_network_address, network_to_allocate,
                   aggregate_block_pointers, carving_pointers,
                   carving_address, base_network, allocation_results, ridx>>

Next ==
    \/ P1Blank
    \/ P1Header
    \/ P1HeaderWithRange
    \/ P1Pass
    \/ P1Align
    \/ P1ValueError
    \/ P1Outside
    \/ P1Emit
    \/ P1LoopEnd
    \/ P1Done
    \/ P2Blank
    \/ P2UnknownAggregate
    \/ P2Header
    \/ P2HeaderWithRange
    \/ P2Pass
    \/ P2Emit
    \/ P2ValueError
    \/ P2Overflow
    \/ P2LoopEnd
    \/ P2RemainderSkip
    \/ P2RemainderRaises
    \/ P2RemainderEmit
    \/ P2RemainderEnd
    \/ P2UnboundLocal
    \/ P2Done
    \/ ResolveHeader
    \/ ResolveOther
    \/ Return

Spec == Init /\ [][Next]_vars

(* ---- format_allocation_row on its own ---- *)

\* the shortest prefix length tried; the addresses tried lie below 64.0.0.0,
\* so that the largest block still ends below 2^31
MinPrefixLen == 2

FormatAddresses ==
    { IP(10, 0, 0, 0), IP(10, 15, 112, 77), IP(37, 200, 1, 255),
      IP(63, 255, 255, 255) }

\* the networks handed to format_allocation_row
FormatNetworks ==
    { ip_network(a, p) : a \in FormatAddresses, p \in MinPrefixLen..32 }

InitFormat ==
    \E n \in FormatNetworks :
        /\ network_to_allocate = n
        /\ master_network = n
        /\ plan = <<>>
        /\ pc = "format"
        /\ idx = 1
        /\ i = 0
        /\ current_network_address = n.addr
        /\ aggregate_block_pointers = <<>>
        /\ carving_pointers = <<>>
        /\ carving_address = NoAddr
        /\ base_network = NoNet
        /\ allocation_results = <<>>
        /\ ridx = 1
        /\ final_results = <<>>
        /\ templates = [EMPTY_ROW_TEMPLATE |-> EMPTY_ROW_TEMPLATE,
                        COLUMN_HEADERS |-> COLUMN_HEADERS]
        /\ call = 1
        /\ first_call = NoCall

\* lines 99-124: one call of format_allocation_row
FormatRow ==
    /\ pc = "format"
    /\ \E building \in {Plain(""), Bldg(1), Plain("Reserved")},
          purpose \in {"Hosts", "Reserved"} :
          allocation_results' =
              << format_allocation_row(network_to_allocate, building, purpose) >>
    /\ pc' = "formatted"
    /\ UNCHANGED <<master_network, plan, templates, call, first_call, idx, i,
                   current_network_address, network_to_allocate,
                   aggregate_block_pointers, carving_pointers,
                   carving_address, base_network, ridx, final_results>>

NextFormat == FormatRow

SpecFormat == InitFormat /\ [][NextFormat]_vars

(* ---- two calls in one process ---- *)

\* the ways a call ends: the return of line 348, the returns of lines 182
\* and 186, an exception nothing catches
Returned == {"done", "fatal", "crashed"}

\* what the call that just ended gave its caller
Output ==
    IF pc = "crashed"
    THEN [kind |-> pc, rows |-> <<>>, cursor |-> NoAddr]
    ELSE [kind |-> pc, rows |-> final_results, cursor |-> current_network_address]

\* lines 126-138: the process calls generate_ip_allocation again with the
\* arguments of the first call; the locals are set up anew
SecondCall ==
    /\ pc \in Returned /\ call = 1
    /\ call' = 2
    /\ first_call' = Output
    /\ pc' = "phase1"
    /\ idx' = 1
    /\ i' = 0
    /\ current_network_address' = master_network.addr
    /\ network_to_allocate' = NoNet
    /\ aggregate_block_pointers' = <<>>
    /\ carving_pointers' = <<>>
    /\ carving_address' = NoAddr
    /\ base_network' = NoNet
    /\ allocation_results' = EntryResults(allocation_results)
    /\ ridx' = 1
    /\ final_results' = <<>>
    /\ UNCHANGED <<master_network, plan, templates>>

NextTwice == Next \/ SecondCall

SpecTwice == Init /\ [][NextTwice]_vars

----------------------------------------------------------------------------
(* Properties *)

\* the allocation records among rows
Records(rows) == SelectSeq(rows, IsAllocationRecord)

\* network n lies inside network m: first and last address
Inside(n, m) == InNet(n.addr, m) /\ InNet(broadcast_address(n), m)

\* the last row of the output
LastRow(rows) == rows[Len(rows)]

\* the step appends exactly one row, an allocation record
EmitsRecord ==
    /\ Len(allocation_results') = Len(allocation_results) + 1
    /\ IsAllocationRecord(LastRow(allocation_results'))

\* the smallest multiple of the block size of plen that is >= p
AlignUp(p, plen) ==
    ((p + NumAddresses(plen) - 1) \div NumAddresses(plen)) * NumAddresses(plen)

\* C1: every allocation record's network has its first and last address
\* inside the master block, whatever the plan and the prefix lengths.
C1_RecordsInsideMaster ==
    \A k \in 1..Len(allocation_results) :
        IsAllocationRecord(allocation_results[k])
            => Inside(RowNet(allocation_results[k]), master_network)

\* C2: no two allocation records of the output have overlapping networks.
C2_NoOverlap ==
    \A j, k \in 1..Len(allocation_results) :
        ( /\ j < k
          /\ IsAllocationRecord(allocation_results[j])
          /\ IsAllocationRecord(allocation_results[k]) )
            => ~overlaps(RowNet(allocation_results[j]), RowNet(allocation_results[k]))

\* C3: a record emitted by a phase-2 allocation or carve_remainder step that
\* names aggregate A lies inside A's reserved network.
C3_Phase2InsideAggregate ==
    [][ ( /\ pc = "phase2"
          /\ EmitsRecord
          /\ Item2.base_block # None )
            => Inside(RowNet(LastRow(allocation_results')),
                      aggregate_block_pointers[Item2.base_block]) ]_vars

\* C4: a carve of prefix plen made with the cursor at p returns the network
\* that starts at the smallest multiple of 2^(32-plen) that is >= p, on the
\* master cursor (phase 1) and on an aggregate cursor (phase 2).
C4_AlignRoundsUp ==
    [][ /\ P1Align
            => network_to_allocate'.addr
                  = AlignUp(current_network_address, Item1.cidr)
        /\ P2Emit
            => LastRow(allocation_results').NetworkAddress
                  = AlignUp(carving_address_local, Item2.cidr) ]_vars

\* C5: no assignment to the master cursor or to an aggregate cursor ever
\* lowers it.
C5_CursorsMonotonic ==
    [][ /\ current_network_address' >= current_network_address
        /\ \A n \in DOMAIN carving_pointers :
              carving_pointers'[n] >= carving_pointers[n] ]_vars

\* C6: the master cursor is at most master.broadcast + 1 and each aggregate
\* cursor is at most its aggregate's broadcast + 1, in every state.
C6_CursorBound ==
    /\ current_network_address <= broadcast_address(master_network) + 1
    /\ \A n \in DOMAIN carving_pointers :
          carving_pointers[n] <= broadcast_address(aggregate_block_pointers[n]) + 1

\* the rows a carve_remainder step labelled UNUSED
UnusedRows(rows) == SelectSeq(rows, LAMBDA r : r.Building = Plain("UNUSED"))

\* C7: carve_remainder covers only unclaimed space: on a /24 aggregate whose
\* first /25 is consumed it emits exactly the eight /28 networks of the
\* second /25, and in general no record it emits starts below the
\* aggregate's cursor at the moment the step began.
C7_RemainderOnlyUnclaimed ==
    /\ (plan = REMAINDER_PLAN /\ pc = "done")
          => /\ Len(UnusedRows(final_results)) = 8
             /\ \A k \in 1..8 :
                   /\ UnusedRows(final_results)[k].NetworkAddress
                         = IP(10, 0, 0, 128) + (k - 1) * 16
                   /\ UnusedRows(final_results)[k].CIDR = 28
    /\ (InPhase2 /\ Item2.type = "carve_remainder" /\ i > 0)
          => LastRow(allocation_results).NetworkAddress >= carving_address

\* a carve of an allocation step does not fit in its target block
CarveDoesNotFit == P1Outside \/ P2Overflow

\* an ERROR marker row that names the purpose
IsErrorRecord(row, purpose) ==
    row.Building = Plain("ERROR") /\ row.AssignedEquipment = purpose

\* C8: when a carve inside an allocation step does not fit, the step stops
\* and exactly one ERROR record naming the unmet purpose is appended.
C8_OneErrorRecord ==
    [][ CarveDoesNotFit
            => /\ Len(allocation_results') = Len(allocation_results) + 1
               /\ IsErrorRecord(LastRow(allocation_results'),
                                IF pc = "p1_check" THEN Item1.purpose
                                ELSE Item2.purpose)
               /\ idx' = idx + 1 ]_vars

\* C9: a failed carve ends only its own step: the walk goes on with the next
\* step of the plan, and the run returns only after the header resolution
\* pass.
C9_ExhaustionIsLocal ==
    [][ CarveDoesNotFit
            => /\ pc' \in {"phase1", "phase2"}
               /\ idx' = idx + 1
               /\ final_results' = final_results ]_vars

\* the run of the end-to-end scenario
IsE2E ==
    plan = E2E_PLAN /\ master_network = [addr |-> IP(10, 0, 0, 0), plen |-> 24]

\* the networks of the allocation records, in output order
RecordNets(rows) ==
    [k \in 1..Len(Records(rows)) |-> RowNet(Records(rows)[k])]

\* no record of rows covers an address above top
RecordsBelow(rows, top) ==
    \A k \in 1..Len(rows) :
        IsAllocationRecord(rows[k]) => broadcast_address(RowNet(rows[k])) <= top

\* what the scenario produces, apart from the bound on the master cursor
E2EOutcome ==
    /\ RecordsBelow(allocation_results, IP(10, 0, 0, 63))
    /\ \A n \in DOMAIN carving_pointers : carving_pointers[n] <= IP(10, 0, 0, 63)
    /\ pc = "done"
          => /\ aggregate_block_pointers
                  = [n \in {"AGG"} |-> [addr |-> IP(10, 0, 0, 0), plen |-> 26]]
             /\ RecordNets(final_results)
                  = << [addr |-> IP(10, 0, 0, 0), plen |-> 28],
                       [addr |-> IP(10, 0, 0, 16), plen |-> 28] >>
             /\ Len(final_results) = 2

\* C10 as claimed: master 10.0.0.0/24, plan [aggregate /26 AGG, 2 x /28 from
\* AGG]: AGG is 10.0.0.0/26, the records are 10.0.0.0/28 and 10.0.0.16/28 in
\* that order, the aggregate produces no row, and no record or cursor
\* reaches an address above 10.0.0.63.
C10_E2E_AsClaimed ==
    IsE2E => /\ E2EOutcome
             /\ current_network_address <= IP(10, 0, 0, 63)

\* C10 amended: as claimed, except that the master cursor does pass
\* 10.0.0.63: reserving AGG leaves it at 10.0.0.64, one past AGG's
\* broadcast address, and it never goes further.
C10_E2E ==
    IsE2E => /\ E2EOutcome
             /\ current_network_address <= IP(10, 0, 0, 64)
             /\ pc = "done" => current_network_address = IP(10, 0, 0, 64)

\* C10 witness: the scenario ran to its end and returned its two records
C10_Witness ==
    IsE2E /\ pc = "done" /\ Len(Records(final_results)) = 2

\* the header_with_range rows of the output, by position
HeaderPositions(rows) == { h \in 1..Len(rows) : IsPlaceholder(rows[h]) }

\* an allocation record that carries the section tag label
TaggedRecord(row, label) ==
    IsAllocationRecord(row) /\ Get(row, "carving_label") = label

\* the position right after the run of records tagged like the header at h;
\* the run starts behind the column-header row at h + 1
RunEnd(rows, h) ==
    LET ends == { j \in (h + 2)..(Len(rows) + 1) :
                    j = Len(rows) + 1
                    \/ ~TaggedRecord(rows[j], rows[h].carving_label) }
    IN  CHOOSE j \in ends : \A k \in ends : j <= k

\* the header at h is followed by its column-header row, k >= 1 records of
\* its section and then a blank row
HeaderWithSection(rows, h) ==
    /\ h + 1 <= Len(rows) /\ rows[h + 1] = COLUMN_HEADERS
    /\ RunEnd(rows, h) > h + 2
    /\ RunEnd(rows, h) <= Len(rows)
    /\ rows[RunEnd(rows, h)] = EMPTY_ROW_TEMPLATE

\* C11: a header_with_range row followed, after its column-header row, by
\* k >= 1 records of its section and then a blank row resolves to the range
\* start of the first of those records and the range end of the k-th,
\* whatever the building label of the records, the empty label included.
C11_HeaderRange ==
    pc = "done" =>
        \A h \in HeaderPositions(allocation_results) :
            HeaderWithSection(allocation_results, h)
                => allocation_results[h].Building
                     = RangeText(allocation_results[h].carving_name,
                                 allocation_results[h + 2].AssignedIPRange[1],
                                 allocation_results[RunEnd(allocation_results, h) - 1]
                                     .AssignedIPRange[2])

\* C12: a header_with_range row for which the resolver finds no matching
\* record resolves to the full span of its aggregate, network address to
\* broadcast address; only a header without an aggregate resolves to
\* "Range Not Determined".
C12_ZeroMatchFallback ==
    pc = "done" =>
        \A h \in HeaderPositions(allocation_results) :
            LET row == allocation_results[h]
                found == FoundSubnets(allocation_results,
                                      row.allocation_start_index, row.carving_label)
            IN  /\ (found = <<>> /\ "aggregate_network" \in DOMAIN row)
                      => row.Building
                           = RangeText(row.carving_name, row.aggregate_network.addr,
                                       broadcast_address(row.aggregate_network))
                /\ (found = <<>> /\ "aggregate_network" \notin DOMAIN row)
                      => row.Building = NotDetermined(row.carving_name)
                /\ row.Building.kind = "undetermined"
                      => "aggregate_network" \notin DOMAIN row

\* C13: two runs of generate_ip_allocation from the same (master block, plan)
\* pair give identical output rows and identical final cursor values, and a
\* run modifies neither the plan nor EMPTY_ROW_TEMPLATE nor COLUMN_HEADERS,
\* so the second run of a process sees the inputs of the first.
C13_Determinism ==
    /\ [](call = 2 /\ pc \in Returned => Output = first_call)
    /\ [][plan' = plan /\ templates' = templates]_vars

\* C13 witness: the second call returned rows, records among them
C13_Witness ==
    call = 2 /\ pc = "done" /\ Len(Records(final_results)) >= 2

\* the phase-2 step about to run carves or titles a section of an aggregate
\* that no phase-1 step registered
UnknownBase2 ==
    /\ InPhase2
    /\ Item2.type \in {"header_with_range", "allocation", "carve_remainder"}
    /\ Item2.base_block # None
    /\ Item2.base_block \notin DOMAIN aggregate_block_pointers

\* C14: a phase-2 header_with_range, allocation or carve_remainder step whose
\* base_block names an aggregate that was never registered is skipped: no
\* row is appended, no cursor and no registry entry changes, and the walk
\* goes on with the next step of the plan.
C14_UnknownAggregateSkipped ==
    [][ UnknownBase2
            => /\ allocation_results' = allocation_results
               /\ current_network_address' = current_network_address
               /\ carving_pointers' = carving_pointers
               /\ aggregate_block_pointers' = aggregate_block_pointers
               /\ pc' = "phase2"
               /\ idx' = idx + 1 ]_vars

\* C14 witness: the plan whose first phase-2 step names the unregistered
\* "NOPE" ran to its end, and a later step carved its record
C14_Witness ==
    /\ plan = MISC_PLAN /\ pc = "done"
    /\ \E k \in 1..Len(P2Items) : P2Items[k].base_block = "NOPE"
    /\ Len(Records(final_results)) = 1

\* the phase-1 iteration about to register its network is an aggregate whose
\* name the registry already holds
RegistersAgain ==
    /\ pc = "p1_check"
    /\ Item1.type = "aggregate"
    /\ Item1.name \in DOMAIN aggregate_block_pointers

\* C15: the registry is write-once per name: an aggregate step, or a later
\* iteration of one, that uses a registered name fails and leaves the
\* registered network and its cursor as they were.
C15_WriteOnceRegistry ==
    [][ RegistersAgain
            => /\ aggregate_block_pointers' = aggregate_block_pointers
               /\ carving_pointers' = carving_pointers
               /\ pc' \in {"fatal", "crashed"} ]_vars

\* C16: no row of the returned sequence carries a section tag (the key
\* carving_label), on every return path, the returns of a failed phase-1
\* carve included.
C16_NoSectionTagReturned ==
    pc \in {"done", "fatal"} =>
        \A k \in 1..Len(final_results) :
            "carving_label" \notin DOMAIN final_results[k]

\* the step appends the record of a phase-1 allocation iteration
EmitsRecord1 == pc = "p1_check" /\ EmitsRecord

\* the step appends the record of a phase-2 allocation iteration
EmitsRecord2 == InPhase2 /\ Item2.type = "allocation" /\ EmitsRecord

\* iteration k of the step is one of its trailing reserved iterations
ReservedIteration(item, k) == item.building_specific /\ k >= NUM_BLDGS_BASE

\* C17: a reserved iteration of a building_specific step emits the step's
\* purpose with " (Reserved)" appended in phase 1 and the purpose "Reserved"
\* in phase 2; any other iteration emits the step's purpose unchanged.
C17_ReservedPurpose ==
    [][ /\ EmitsRecord1
            => LastRow(allocation_results').AssignedEquipment
                 = IF ReservedIteration(Item1, i)
                   THEN Item1.purpose \o " (Reserved)" ELSE Item1.purpose
        /\ EmitsRecord2
            => LastRow(allocation_results').AssignedEquipment
                 = IF ReservedIteration(Item2, i)
                   THEN "Reserved" ELSE Item2.purpose ]_vars

\* the label of iteration k of a building_specific step
NumberedLabel(k) == IF k < NUM_BLDGS_BASE THEN Bldg(k + 1) ELSE Plain("Reserved")

\* C18 as claimed: iteration i of a building_specific allocation step is
\* labelled "BLDG i+1" when i < 10 and "Reserved" when i >= 10, in every
\* step anew; without building_specific every record has an empty building
\* label, in phase 1 as well as in phase 2.
C18_BuildingLabels_AsClaimed ==
    [][ /\ EmitsRecord1
            => LastRow(allocation_results').Building
                 = IF Item1.building_specific THEN NumberedLabel(i) ELSE Plain("")
        /\ EmitsRecord2
            => LastRow(allocation_results').Building
                 = IF Item2.building_specific THEN NumberedLabel(i) ELSE Plain("")
      ]_vars

\* C18 amended: as claimed, except that in phase 1 a step without
\* building_specific whose purpose is "Reserved" labels its records
\* "Reserved"; every other record of a step without building_specific has
\* an empty building label.
C18_BuildingLabels ==
    [][ /\ EmitsRecord1
            => LastRow(allocation_results').Building
                 = IF Item1.building_specific THEN NumberedLabel(i)
                   ELSE IF Item1.purpose = "Reserved" THEN Plain("Reserved")
                   ELSE Plain("")
        /\ EmitsRecord2
            => LastRow(allocation_results').Building
                 = IF Item2.building_specific THEN NumberedLabel(i) ELSE Plain("")
      ]_vars

\* the records of rows with the building label b and the purpose p
Labelled(rows, b, p) ==
    { k \in 1..Len(rows) :
        /\ IsAllocationRecord(rows[k])
        /\ rows[k].Building = b /\ rows[k].AssignedEquipment = p }

\* C18 witness: a phase-1 plan ran through numbered, reserved and unlabelled
\* iterations: "BLDG 1" twice (two steps), "BLDG 10", a reserved iteration
\* of a building_specific step and the records of a "Reserved" step
C18_Witness ==
    /\ plan = RESERVED_PLAN /\ pc = "done"
    /\ Cardinality(Labelled(final_results, Bldg(1), "Hosts")) = 2
    /\ Labelled(final_results, Bldg(NUM_BLDGS_BASE), "Hosts") # {}
    /\ Cardinality(Labelled(final_results, Plain("Reserved"), "Hosts")) = NUM_RESERVED
    /\ Cardinality(Labelled(final_results, Plain("Reserved"), "Reserved")) = NUM_RESERVED

\* the phase-1 walk stands in an aggregate step
InAggregateStep ==
    /\ pc \in {"phase1", "p1_check"} /\ idx <= Len(P1Items)
    /\ Item1.type = "aggregate"

\* the phase-2 step about to run is the first step of the plan that carves
\* from its aggregate
FirstCarve2 ==
    /\ InPhase2 /\ i = 0
    /\ Item2.type \in {"allocation", "carve_remainder"}
    /\ Item2.base_block \in DOMAIN aggregate_block_pointers
    /\ \A k \in 1..(idx - 1) :
          P2Items[k].type \in {"allocation", "carve_remainder"}
              => P2Items[k].base_block # Item2.base_block

\* C19: an aggregate step appends no row; when it reserves its network it
\* moves the master cursor to one past that network's broadcast address and
\* registers the network under its name with a cursor equal to the
\* network's own address; so the first phase-2 carve from an aggregate
\* starts at the aggregate's network address, not at the master cursor.
C19_AggregateStep ==
    /\ [][ /\ InAggregateStep => allocation_results' = allocation_results
           /\ (InAggregateStep /\ pc = "p1_check" /\ pc' = "phase1")
                => /\ current_network_address'
                        = broadcast_address(network_to_allocate) + 1
                   /\ aggregate_block_pointers'[Item1.name] = network_to_allocate
                   /\ carving_pointers'[Item1.name] = network_to_allocate.addr
         ]_vars
    /\ [](FirstCarve2
            => /\ carving_address_local = base_network_local.addr
               /\ carving_address_local # current_network_address)

\* C19 witness: an aggregate is registered, the output is still empty, the
\* master cursor stands one past the aggregate, and the first carve from the
\* aggregate is about to run
C19_Witness ==
    /\ FirstCarve2 /\ Item2.type = "allocation"
    /\ allocation_results = <<>>
    /\ current_network_address
         = broadcast_address(aggregate_block_pointers[Item2.base_block]) + 1

\* the netmask of prefix length p as the complement of its host mask, in
\* two 16-bit halves
ComplementOfHostMask(p) ==
    << 65535 - ((NumAddresses(p) - 1) \div 65536),
       65535 - ((NumAddresses(p) - 1) % 65536) >>

\* C20: for a network of prefix length p, format_allocation_row reports
\* 2^(32-p) - 2 hosts and the range network+1 - broadcast-1 when p < 31,
\* 2^(32-p) hosts and the range network - broadcast when p >= 31; the
\* network address, the prefix and the netmask are those of the network.
C20_FormatRow ==
    pc = "formatted" =>
        LET row == allocation_results[1]
            n == network_to_allocate
            last == n.addr + 2 ^ (32 - n.plen) - 1
        IN  /\ n.plen < 31
                => /\ row.Hosts = 2 ^ (32 - n.plen) - 2
                   /\ row.AssignedIPRange = <<n.addr + 1, last - 1>>
            /\ n.plen >= 31
                => /\ row.Hosts = 2 ^ (32 - n.plen)
                   /\ row.AssignedIPRange = <<n.addr, last>>
            /\ row.NetworkAddress = n.addr
            /\ row.CIDR = n.plen
            /\ row.SubnetMask = ComplementOfHostMask(n.plen)

\* C20 witness: a /31 was formatted: 2 hosts, the range is the two addresses
C20_Witness ==
    /\ pc = "formatted" /\ network_to_allocate.plen = 31
    /\ allocation_results[1].Hosts = 2
    /\ allocation_results[1].AssignedIPRange
         = <<network_to_allocate.addr, network_to_allocate.addr + 1>>

\* the positions of the phase-1 steps that carve (allocation, aggregate)
CarvePositions1 ==
    { k \in 1..Len(P1Items) : P1Items[k].type \in {"allocation", "aggregate"} }

\* the first carve of the plan asks for a network larger than the master
\* block
MasterTooSmall ==
    /\ CarvePositions1 # {}
    /\ LET first == CHOOSE k \in CarvePositions1 :
                        \A j \in CarvePositions1 : k <= j
       IN  /\ ValidPrefix(P1Items[first].cidr)
           /\ P1Items[first].cidr < master_network.plen
           /\ Count1(P1Items[first]) >= 1

\* C21: when the master block cannot hold the first carve of the plan, the
\* run fails as a whole and emits no allocation record.
C21_MasterTooSmall ==
    MasterTooSmall
        => /\ Records(allocation_results) = <<>>
           /\ pc \notin {"phase2", "resolve", "done"}

\* a phase-1 carve is about to be attempted, and its candidate will not pass
\* the master check
FailingAttempt1 ==
    /\ IsCarve1 /\ i < Count1(Item1) /\ ValidPrefix(Item1.cidr)
    /\ ~MasterCheck(ip_network(current_network_address, Item1.cidr))

\* the candidate of a phase-1 carve stands rejected by the master check
Rejected1 == pc = "p1_check" /\ ~MasterCheck(network_to_allocate)

\* a phase-2 carve from a registered aggregate is about to be attempted,
\* and its candidate's broadcast address exceeds the aggregate's
FailingAttempt2 ==
    /\ InPhase2 /\ Item2.type = "allocation"
    /\ Item2.base_block \in DOMAIN aggregate_block_pointers
    /\ i < Item2.count /\ ValidPrefix(Item2.cidr)
    /\ broadcast_address(ip_network(carving_address_local, Item2.cidr))
         > broadcast_address(aggregate_block_pointers[Item2.base_block])

\* C22: a carve that fails appends no allocation record and leaves the
\* cursor of the block it targeted at the value it had right before the
\* attempt, also when that value was not aligned to the requested prefix.
C22_NoPartialCarve ==
    [][ /\ (FailingAttempt1 \/ Rejected1)
            => /\ allocation_results' = allocation_results
               /\ current_network_address' = current_network_address
        /\ FailingAttempt2
            => /\ allocation_results' = allocation_results
               /\ carving_pointers' = carving_pointers ]_vars

\* C22 witness: the phase-2 step just left failed a carve from a cursor
\* that is not aligned to the step's prefix, and the walk stands at the
\* next step
C22_Witness ==
    /\ pc = "phase2" /\ idx > 1 /\ idx - 1 <= Len(P2Items) /\ i = 0
    /\ LET prev == P2Items[idx - 1]
       IN  /\ prev.type = "allocation" /\ ValidPrefix(prev.cidr)
           /\ prev.base_block \in DOMAIN aggregate_block_pointers
           /\ carving_pointers[prev.base_block] % NumAddresses(prev.cidr) # 0
           /\ broadcast_address(ip_network(carving_pointers[prev.base_block],
                                           prev.cidr))
                > broadcast_address(aggregate_block_pointers[prev.base_block])

\* the step about to run is a structural one
StructuralStep ==
    \/ InPhase1 /\ Item1.type \in {"blank_row", "header", "header_with_range"}
    \/ InPhase2 /\ Item2.type \in {"blank_row", "header", "header_with_range"}

\* the rows the step appends
NewRows ==
    SubSeq(allocation_results', Len(allocation_results) + 1,
           Len(allocation_results'))

\* the step changes the output by appending only
AppendsOnly ==
    /\ Len(allocation_results') >= Len(allocation_results)
    /\ SubSeq(allocation_results', 1, Len(allocation_results))
         = allocation_results

\* the step moves no cursor and changes no registered network
NoCursorMoves ==
    /\ current_network_address' = current_network_address
    /\ carving_pointers' = carving_pointers
    /\ aggregate_block_pointers' = aggregate_block_pointers

\* C23 as claimed: a blank_row, header or header_with_range step, in either
\* phase, leaves the master cursor, every aggregate cursor and every
\* registered network unchanged and appends only rows with an empty Network
\* Address.
C23_StructuralSteps_AsClaimed ==
    [][ StructuralStep
            => /\ NoCursorMoves
               /\ AppendsOnly
               /\ \A k \in 1..Len(NewRows) : NewRows[k].NetworkAddress = NoAddr
      ]_vars

\* C23 amended: as claimed, except that the rows appended are rows that are
\* no allocation records: their Network Address is empty, or, in the
\* column-header row that a header_with_range step appends after its header
\* row, holds the column title.
C23_StructuralSteps ==
    [][ StructuralStep
            => /\ NoCursorMoves
               /\ AppendsOnly
               /\ \A k \in 1..Len(NewRows) :
                     /\ ~IsAllocationRecord(NewRows[k])
                     /\ \/ NewRows[k].NetworkAddress = NoAddr
                        \/ /\ NewRows[k] = COLUMN_HEADERS
                           /\ k = 2 /\ IsPlaceholder(NewRows[1])
      ]_vars

\* C23 witness: a header_with_range step of phase 2 has appended its header
\* row and the column-header row; an aggregate is registered
C23_Witness ==
    /\ pc = "phase2" /\ Len(allocation_results) >= 2
    /\ LastRow(allocation_results) = COLUMN_HEADERS
    /\ IsPlaceholder(allocation_results[Len(allocation_results) - 1])
    /\ DOMAIN aggregate_block_pointers # {}

\* the phase-1 step about to run is a remainder step
RemainderStep1 == InPhase1 /\ Item1.type = "remainder" /\ ValidPrefix(Item1.cidr)

\* how many networks of prefix length plen fit between address p and the
\* end of the master block
FitsInMaster(p, plen) ==
    IF AlignUp(p, plen) > broadcast_address(master_network) THEN 0
    ELSE (broadcast_address(master_network) + 1 - AlignUp(p, plen))
            \div NumAddresses(plen)

\* C24: a phase-1 step of type "remainder" emits one record, labelled with
\* the step's purpose, for every network of the step's prefix that fits
\* between the master cursor and the end of the master block, and leaves
\* the master cursor at the end of the last such network.
C24_MasterRemainder ==
    [][ RemainderStep1
            => LET n == FitsInMaster(current_network_address, Item1.cidr)
                   first == AlignUp(current_network_address, Item1.cidr)
               IN  /\ AppendsOnly
                   /\ Len(NewRows) = n
                   /\ \A k \in 1..Len(NewRows) :
                         /\ RowNet(NewRows[k])
                              = [addr |-> first + (k - 1) * NumAddresses(Item1.cidr),
                                 plen |-> Item1.cidr]
                         /\ NewRows[k].AssignedEquipment = Item1.purpose
                   /\ n > 0 => current_network_address'
                                  = first + n * NumAddresses(Item1.cidr)
      ]_vars

\* a carve_remainder step on a registered aggregate whose prefix length is
\* at most the step's
RemainderOnAggregate ==
    /\ IsRemainder2
    /\ Item2.base_block \in DOMAIN aggregate_block_pointers
    /\ aggregate_block_pointers[Item2.base_block].plen <= Item2.cidr
    /\ Item2.cidr <= 32

\* the cursor of the aggregate a phase-2 step names stands one past the
\* aggregate's broadcast address when the step begins
ExhaustedAtStart ==
    /\ Entered2 /\ i = 0
    /\ Item2.type \in {"allocation", "carve_remainder"}
    /\ Item2.base_block \in DOMAIN aggregate_block_pointers
    /\ carving_pointers[Item2.base_block]
          = broadcast_address(aggregate_block_pointers[Item2.base_block]) + 1

\* C25: a carve_remainder step on a registered aggregate whose prefix
\* length is at most the step's ends after at most one iteration per subnet
\* without ending the run, appends only UNUSED records of the step's prefix
\* inside the aggregate (no error row), and ends with the aggregate's cursor
\* at broadcast + 1 when it emitted a record; a carve of any prefix that
\* starts with the cursor at broadcast + 1 (a carve_remainder included)
\* emits nothing and leaves the cursor unchanged.
C25_CarveRemainder ==
    /\ [][ RemainderOnAggregate
              => LET agg == aggregate_block_pointers[Item2.base_block]
                 IN  /\ pc' = "phase2"
                     /\ AppendsOnly
                     /\ \/ /\ idx' = idx /\ i' = i + 1
                           /\ i < 2 ^ (Item2.cidr - agg.plen)
                           /\ Len(NewRows) = 1
                           /\ IsAllocationRecord(NewRows[1])
                           /\ RowNet(NewRows[1]).plen = Item2.cidr
                           /\ InNet(RowNet(NewRows[1]).addr, agg)
                           /\ broadcast_address(RowNet(NewRows[1]))
                                 <= broadcast_address(agg)
                           /\ NewRows[1].Building = Plain("UNUSED")
                           /\ NewRows[1].AssignedEquipment = Item2.purpose
                        \/ /\ idx' = idx + 1 /\ i' = 0
                           /\ NewRows = <<>>
                           /\ i > 0 => carving_pointers'[Item2.base_block]
                                          = broadcast_address(agg) + 1
        ]_vars
    /\ [][ ExhaustedAtStart
              => /\ idx' = idx + 1
                 /\ allocation_results' = allocation_results
                 /\ carving_pointers' = carving_pointers
        ]_vars

\* a carve_remainder step has just emitted records up to the end of its
\* aggregate, and the next step carves from the same aggregate
C25_Witness ==
    /\ pc = "phase2" /\ i = 0 /\ 1 < idx /\ idx <= Len(P2Items)
    /\ P2Items[idx - 1].type = "carve_remainder"
    /\ Len(allocation_results) > 0
    /\ LastRow(allocation_results).Building = Plain("UNUSED")
    /\ ExhaustedAtStart
    /\ P2Items[idx - 1].base_block = Item2.base_block

\* a header row of the plain kind: no network, no placeholder, a title
IsPlainHeaderRow(row) ==
    /\ row.NetworkAddress = NoAddr
    /\ ~IsPlaceholder(row)
    /\ row.Building # Plain("")

\* the first position after header position h that holds a blank row or a
\* header row of either kind
Boundary(rows, h) ==
    LET ends == { j \in (h + 1)..Len(rows) :
                    \/ rows[j] = EMPTY_ROW_TEMPLATE
                    \/ IsPlainHeaderRow(rows[j])
                    \/ IsPlaceholder(rows[j]) }
    IN  IF ends = {} THEN Len(rows) + 1
        ELSE CHOOSE j \in ends : \A k \in ends : j <= k

\* the positions of the rows the resolver collects for the header at h
FoundPositions(rows, h) ==
    { j \in (rows[h].allocation_start_index + 1)
               ..(ScanStop(rows, rows[h].allocation_start_index) - 1) :
         Matches(rows[j], rows[h].carving_label) }

\* C26: the rows that contribute to the range of a header_with_range row
\* are allocation records located between that header and the first later
\* blank row or header row of either kind; the column-header row after the
\* header is never one of them.
C26_ScanBoundary ==
    pc = "resolve"
        => \A h \in 1..Len(allocation_results) :
              IsPlaceholder(allocation_results[h])
                  => FoundPositions(allocation_results, h)
                        \subseteq
                        { j \in (h + 1)..(Boundary(allocation_results, h) - 1) :
                            IsAllocationRecord(allocation_results[j]) }

\* the positions of the plan list whose step is marked phase ph
PhasePositions(ph) == { k \in 1..Len(plan) : plan[k].phase = ph }

\* the n-th of them, in list order
NthPosition(ph, n) ==
    CHOOSE k \in PhasePositions(ph) :
        Cardinality({ j \in PhasePositions(ph) : j <= k }) = n

\* the loop of phase ph is at its n-th step, which is the step the
\* plan list declares as the n-th one marked ph
AtDeclaredStep(ph, item, n) ==
    /\ n <= Cardinality(PhasePositions(ph)) + 1
    /\ n <= Cardinality(PhasePositions(ph)) => item = plan[NthPosition(ph, n)]

\* C27: the steps marked phase 1 are executed first, in their declared
\* order, then the steps marked phase 2 in theirs, wherever they sit in
\* the list; phase 2 begins only when every phase-1 step has been executed,
\* never hands back to phase 1 and finds every phase-1 aggregate
\* registered, in a registry that no longer changes; rows are only ever
\* appended, so phase-1 rows precede phase-2 rows; a step marked neither 1
\* nor 2 is never executed.
C27_PhaseOrdering ==
    /\ [] /\ pc = "phase1"
               => IF idx <= Len(P1Items)
                  THEN AtDeclaredStep(1, Item1, idx)
                  ELSE idx = Cardinality(PhasePositions(1)) + 1
          /\ pc = "phase2"
               => /\ IF idx <= Len(P2Items)
                     THEN AtDeclaredStep(2, Item2, idx)
                     ELSE idx = Cardinality(PhasePositions(2)) + 1
                  /\ \A k \in PhasePositions(1) :
                        plan[k].type = "aggregate"
                           => plan[k].name \in DOMAIN aggregate_block_pointers
          /\ pc = "done" /\ plan = INTERLEAVED_PLAN
               => /\ [k \in 1..Len(final_results) |->
                          final_results[k].AssignedEquipment]
                        = <<"Hosts", "Links", "">>
                  /\ [k \in 1..Len(final_results) |->
                          final_results[k].NetworkAddress]
                        = <<IP(10, 0, 0, 0), IP(10, 0, 0, 64), NoAddr>>
    /\ [][ pc = "phase1"
              => \/ pc' \in {"phase1", "p1_check"} /\ idx' \in {idx, idx + 1}
                    /\ AppendsOnly
                 \/ pc' = "fatal"
                 \/ /\ pc' = "phase2" /\ idx' = 1
                    /\ idx = Cardinality(PhasePositions(1)) + 1
                    /\ allocation_results' = allocation_results
        ]_vars
    /\ [][ pc = "p1_check"
              => pc' \in {"phase1", "fatal"} /\ idx' = idx /\ AppendsOnly
        ]_vars
    /\ [][ pc = "phase2"
              => /\ aggregate_block_pointers' = aggregate_block_pointers
                 /\ \/ pc' = "phase2" /\ idx' \in {idx, idx + 1} /\ AppendsOnly
                    \/ pc' = "crashed"
                    \/ /\ pc' = "resolve"
                       /\ idx = Cardinality(PhasePositions(2)) + 1
                       /\ allocation_results' = allocation_results
        ]_vars

\* a phase-2 carve declared before the aggregate step it names, and before
\* every phase-1 step, has emitted its record after the phase-1 rows
C27_Witness ==
    /\ plan = INTERLEAVED_PLAN
    /\ pc = "phase2" /\ idx = 2
    /\ Len(allocation_results) = 2
    /\ allocation_results[1].AssignedEquipment = "Hosts"
    /\ allocation_results[2].AssignedEquipment = "Links"

\* the phase-2 step at work is an allocation or carve_remainder step that
\* names a registered aggregate
CarvesFromAggregate ==
    /\ InPhase2
    /\ Item2.type \in {"allocation", "carve_remainder"}
    /\ Item2.base_block \in DOMAIN aggregate_block_pointers

\* C28: in phase 2 the master cursor and the registry (its names and their
\* networks) never change; an allocation or carve_remainder step on a
\* registered aggregate changes at most that aggregate's cursor, and every
\* other phase-2 step changes no cursor.
C28_CursorIsolation ==
    [][ pc = "phase2"
          => /\ current_network_address' = current_network_address
             /\ aggregate_block_pointers' = aggregate_block_pointers
             /\ DOMAIN carving_pointers' = DOMAIN carving_pointers
             /\ IF CarvesFromAggregate
                THEN \A n \in DOMAIN carving_pointers \ {Item2.base_block} :
                        carving_pointers'[n] = carving_pointers[n]
                ELSE carving_pointers' = carving_pointers
      ]_vars

\* two aggregates are registered; phase 2 has moved the cursor of one and
\* the other still stands at its network address
C28_Witness ==
    /\ pc = "phase2"
    /\ \E a, b \in DOMAIN aggregate_block_pointers :
          /\ a # b
          /\ carving_pointers[a] > aggregate_block_pointers[a].addr
          /\ carving_pointers[b] = aggregate_block_pointers[b].addr
          /\ idx > 1 /\ P2Items[idx - 1].base_block = a

\* the network address is a multiple of the block size 2^(32-prefix)
Aligned(n) == n.addr % NumAddresses(n.plen) = 0

\* C29: every allocation record in the rows built so far and in the rows
\* returned, and every network held in the aggregate registry, has a
\* network address that is a multiple of its block size.
C29_NoMisalignedBlock ==
    /\ \A k \in 1..Len(allocation_results) :
          IsAllocationRecord(allocation_results[k])
             => Aligned(RowNet(allocation_results[k]))
    /\ \A k \in 1..Len(final_results) :
          IsAllocationRecord(final_results[k])
             => Aligned(RowNet(final_results[k]))
    /\ \A n \in DOMAIN aggregate_block_pointers :
          Aligned(aggregate_block_pointers[n])

\* a record was carved while the cursor, left one past the record before
\* it, was no multiple of the new record's block size, and an aggregate
\* is registered
C29_Witness ==
    /\ DOMAIN aggregate_block_pointers # {}
    /\ \E k \in 1..(Len(allocation_results) - 1) :
          /\ IsAllocationRecord(allocation_results[k])
          /\ IsAllocationRecord(allocation_results[k + 1])
          /\ (broadcast_address(RowNet(allocation_results[k])) + 1)
                % NumAddresses(allocation_results[k + 1].CIDR) # 0

\* phase 1 has just ended: no phase-2 step has begun
EndOfPhase1 == pc = "phase2" /\ idx = 1 /\ i = 0

\* C30: at the end of phase 1 the networks registered under distinct
\* aggregate names do not overlap each other, and no registered aggregate
\* network overlaps a phase-1 allocation record.
C30_AggregatesDisjoint ==
    EndOfPhase1
        => /\ \A a, b \in DOMAIN aggregate_block_pointers :
                 a # b => ~overlaps(aggregate_block_pointers[a],
                                    aggregate_block_pointers[b])
           /\ \A a \in DOMAIN aggregate_block_pointers :
                 \A k \in 1..Len(allocation_results) :
                    IsAllocationRecord(allocation_results[k])
                       => ~overlaps(aggregate_block_pointers[a],
                                    RowNet(allocation_results[k]))

====
